---------------------------- MODULE Spec2Model ----------------------------
(***************************************************************************)
(* The token endpoint of the SMART launcher, backend/routes/auth/token.ts: *)
(* TokenHandler.handle and everything it calls, as a state machine over    *)
(* a request and the refresh grants that follow it.  Each check of the     *)
(* source is one step; `log` records the checks that were evaluated for    *)
(* the request at hand, `fetches` its outbound JWKS requests.              *)
(*                                                                         *)
(* JavaScript values are modelled with one type per field: a string field  *)
(* that is undefined holds Undefined, a number that is undefined holds     *)
(* NoValue, a URL that is compared modulo its scheme is a sequence of its  *)
(* parts, a scope string is the sequence of its atoms.  A signed token is  *)
(* a record of its payload, the key that signed it and its expiry, so that *)
(* verifying decides on the signer and does not assume it.                 *)
(***************************************************************************)
EXTENDS Integers, Sequences, FiniteSets, TLC

\* ------------------------------------------------------------- bounds
\* Longest key list of a JWKS document.
MaxKeys == 2
\* Largest accessTokensExpireIn (minutes) a code token carries.
MaxExpire == 2
\* Longest chain of grants: a first request and the refresh grants after it.
MaxGrants == 3

\* ---------------------------------------------------- JavaScript values
Undefined == "<undefined>"
NoValue == -1

\* !x for a string-valued x
Falsy(x) == x \in {Undefined, ""}
\* !x for a number-valued x
FalsyNum(n) == n \in {NoValue, 0}

\* ---------------------------------------------------------------- errors
NoError == [kind |-> "none", errorId |-> "", status |-> 0, message |-> ""]

InvalidClientError(msg, st) ==
    [kind |-> "InvalidClientError", errorId |-> "invalid_client", status |-> st, message |-> msg]

InvalidRequestError(msg, st) ==
    [kind |-> "InvalidRequestError", errorId |-> "invalid_request", status |-> st, message |-> msg]

OAuthError(msg, id, st) ==
    [kind |-> "OAuthError", errorId |-> id, status |-> st, message |-> msg]

\* ---------------------------------------------------------- configuration
config ==
    [ jwtSecret            |-> "jwtSecret",
      privateKeyAsPem      |-> "privateKey",
      accessTokenLifetime  |-> 60,
      refreshTokenLifeTime |-> 525600,
      supportedAlgorithms  |-> {"RS384", "ES384"} ]

\* --------------------------------------------------------------- hashing
\* crypto.createHash('sha256') + jose.util.base64url.encode, on the
\* verifiers of the model (the values are the real digests).
Verifiers == {"", "dBjftJeZ4CVP-mB92K27uhbUJU1p1r_wW1gFWFOEjXk", "verifier-two"}

Sha256Base64Url(v) ==
    CASE v = "" -> "47DEQpj8HBSa-_TImW-5JCeuQeRkm5NMpJWZG3hSuFU"
      [] v = "dBjftJeZ4CVP-mB92K27uhbUJU1p1r_wW1gFWFOEjXk" -> "E9Melhoa2OwvFrEMTJguCHaoeK1t8URWbuGJSstw-cM"
      [] v = "verifier-two" -> "-OZP4bJHaGpD8aBOjIhyUGreuIdXfZtWCXsxKSQUzuw"

\* ------------------------------------------------------------------ JWKS
\* A JWK: kid, alg and its key material (pub); material "malformed" is one
\* jose.JWK.asKey rejects.
Algs == {"RS384", "ES384"}
Kids == {"kid-a", "kid-b"}
Jwks ==
    {[kid |-> "kid-a", alg |-> "RS384", pub |-> "pub-1"],
     [kid |-> "kid-a", alg |-> "ES384", pub |-> "pub-2"],
     [kid |-> "kid-b", alg |-> "RS384", pub |-> "pub-2"],
     [kid |-> "kid-b", alg |-> "ES384", pub |-> "pub-1"],
     [kid |-> "kid-a", alg |-> "RS384", pub |-> "malformed"]}

NoKey == [kid |-> Undefined, alg |-> Undefined, pub |-> Undefined]

RECURSIVE SeqsUpTo(_, _)
SeqsUpTo(S, n) ==
    IF n = 0 THEN {<<>>}
    ELSE LET shorter == SeqsUpTo(S, n - 1)
         IN  shorter \cup {Append(s, x) : s \in {t \in shorter : Len(t) = n - 1}, x \in S}

\* A JSON value in the place of a JWKS document, by its shape:
\*   "undefined"   no value,            "null"        null or a scalar,
\*   "array"       an array,            "nokeys"      an object without keys,
\*   "keysNotArray" keys is no array,   "jwks"        { keys: [...] }.
JwksDoc(shape, keys) == [shape |-> shape, keys |-> keys]
NoJwks == JwksDoc("undefined", <<>>)
MalformedDocs == {JwksDoc(s, <<>>) : s \in {"null", "array", "nokeys", "keysNotArray"}}
JwksDocs == {JwksDoc("jwks", ks) : ks \in SeqsUpTo(Jwks, MaxKeys)}

\* client.jwks of a code token: absent, an object, or a string of JSON
\* (form "string"; text "invalid" does not parse).
InlineJwks(form, doc) == [form |-> form, doc |-> doc]
NoInlineJwks == InlineJwks("undefined", NoJwks)

\* ----------------------------------------------------------------- scope
\* A scope string as the sequence of its atoms: scope names, the space and
\* the URL-encoded space.
ScopeNames == {"openid", "profile", "fhirUser", "offline_access", "online_access", "launch"}

decodeURIComponent(s) == [i \in 1..Len(s) |-> IF s[i] = "%20" THEN " " ELSE s[i]]

\* ScopeSet: the words of the string, split at spaces.
RECURSIVE Words(_, _, _)
Words(s, i, cur) ==
    IF i > Len(s) THEN (IF cur = <<>> THEN {} ELSE {cur})
    ELSE IF s[i] = " " THEN (IF cur = <<>> THEN {} ELSE {cur}) \cup Words(s, i + 1, <<>>)
    ELSE Words(s, i + 1, Append(cur, s[i]))

ScopeSet(s) == Words(s, 1, <<>>)

ScopeHas(set, name) == <<name>> \in set

\* --------------------------------------------------------------- tokens
\* SMART.AuthorizationToken: the claims of a code or refresh token.
ContextKeys == {"patient", "id_token", "refresh_token", "access_token",
                "token_type", "expires_in", "scope"}

AuthErrors ==
    {Undefined, "auth_invalid_client_secret", "token_invalid_token",
     "token_expired_refresh_token", "token_expired_registration_token",
     "token_invalid_jti", "request_invalid_token", "request_expired_token"}

EmptyToken ==
    [ redirect_uri          |-> Undefined,
      code_challenge        |-> Undefined,
      code_challenge_method |-> Undefined,
      client_id             |-> Undefined,
      client_secret         |-> Undefined,
      jwks_url              |-> Undefined,
      jwks                  |-> NoInlineJwks,
      scope                 |-> <<>>,
      user                  |-> Undefined,
      context               |-> {},
      nonce                 |-> Undefined,
      accessTokensExpireIn  |-> NoValue,
      auth_error            |-> Undefined ]

\* A signed token (jwt.sign): payload, signing key, lifetime; `expired`
\* is whether its lifetime has passed when it is presented.
Jwt(payload, key, expiresIn, expired) ==
    [form |-> "jwt", payload |-> payload, signedWith |-> key,
     expiresIn |-> expiresIn, expired |-> expired]

\* A request parameter that is not sent, and one that is no token at all.
NoJwt == [form |-> "undefined", payload |-> EmptyToken, signedWith |-> Undefined,
          expiresIn |-> NoValue, expired |-> FALSE]
GarbageJwt == [NoJwt EXCEPT !.form = "garbage"]

\* jwt.verify(token, secret): does not throw
JwtVerifies(t, secret) ==
    t.form = "jwt" /\ t.signedWith = secret /\ ~t.expired

\* ---------------------------------------------------- client assertions
AssertionJwt(header, payload, signedBy) ==
    [form |-> "jwt", header |-> header, payload |-> payload, signedBy |-> signedBy]

EmptyHeader == [typ |-> Undefined, kid |-> Undefined, alg |-> Undefined, jku |-> Undefined]
EmptyClaims == [iss |-> Undefined, sub |-> Undefined, aud |-> <<>>, exp |-> Undefined,
                jti |-> Undefined]
NoAssertion == [form |-> "undefined", header |-> EmptyHeader, payload |-> EmptyClaims,
                signedBy |-> Undefined]
GarbageAssertion == [NoAssertion EXCEPT !.form = "garbage"]

JwtBearer == "urn:ietf:params:oauth:client-assertion-type:jwt-bearer"

\* ------------------------------------------------------------ the request
\* An Authorization header: its scheme word and, base64-decoded and split
\* at ":", the parts of what follows it (<<>>: nothing follows).
NoAuthorization == [scheme |-> Undefined, parts |-> <<>>]
BasicAuth(scheme, parts) == [scheme |-> scheme, parts |-> parts]

\* authHeader.search(/^basic\s*/i) === 0
IsBasic(h) == h.scheme \in {"Basic", "basic", "BASIC"}

TokenUrl == <<"https", "://launcher.example", "/v/r4/auth/token">>

\* url.replace(/^https?/, "")
StripScheme(u) == IF u # <<>> /\ u[1] \in {"http", "https"} THEN Tail(u) ELSE u


\* ------------------------------------------------------ request universe
\* The requests are those that passed requireUrlencodedPost (token.ts:45),
\* the transport's precondition.  They are the union of slices: each varies
\* the inputs of one part of the handler in full and keeps the others at a
\* request that passes.
RedirectUri == "https://app.example/cb"
BaseKey == [kid |-> "kid-a", alg |-> "RS384", pub |-> "pub-1"]
BaseInlineJwks == InlineJwks("object", JwksDoc("jwks", <<BaseKey>>))

BaseToken ==
    [EmptyToken EXCEPT !.redirect_uri = RedirectUri,
                       !.client_id = "client-1",
                       !.jwks = BaseInlineJwks,
                       !.scope = <<"launch">>,
                       !.user = "Practitioner/1"]

BaseAssertion ==
    AssertionJwt([typ |-> "JWT", kid |-> "kid-a", alg |-> "RS384", jku |-> Undefined],
                 [iss |-> "client-1", sub |-> "client-1", aud |-> TokenUrl,
                  exp |-> "future", jti |-> "jti-1"],
                 "pub-1")

SignedCode(token) == Jwt(token, config.jwtSecret, NoValue, FALSE)

BaseReq ==
    [ grant_type            |-> "authorization_code",
      code                  |-> SignedCode(BaseToken),
      redirect_uri          |-> RedirectUri,
      code_verifier         |-> Undefined,
      client_assertion      |-> NoAssertion,
      client_assertion_type |-> Undefined,
      refresh_token         |-> NoJwt,
      authorization         |-> NoAuthorization ]

GrantTypes == {Undefined, "", "password", "client_credentials",
               "authorization_code", "refresh_token"}

\* Slice: the grant_type, on a request that carries both a code and a
\* refresh token.
GrantRequests ==
    {[BaseReq EXCEPT !.grant_type = g, !.code = c, !.refresh_token = r,
                     !.authorization = h] :
        g \in GrantTypes,
        c \in {NoJwt, SignedCode(BaseToken)},
        r \in {NoJwt, Jwt(BaseToken, config.jwtSecret, NoValue, FALSE)},
        h \in {NoAuthorization, BasicAuth("Basic", <<"client-1", "secret-1">>)}}

\* Slice: the parameters and code claims handleAuthorizationCode reads.
PkceTokens ==
    {[BaseToken EXCEPT !.redirect_uri = r, !.code_challenge_method = m,
                       !.code_challenge = c] :
        r \in {Undefined, RedirectUri},
        m \in {Undefined, "", "S256", "plain"},
        c \in {Undefined, Sha256Base64Url(""),
               Sha256Base64Url("dBjftJeZ4CVP-mB92K27uhbUJU1p1r_wW1gFWFOEjXk")}}

Codes ==
    {NoJwt, GarbageJwt,
     Jwt(BaseToken, "anotherSecret", NoValue, FALSE),
     Jwt(BaseToken, config.jwtSecret, NoValue, TRUE)}
    \cup {SignedCode(t) : t \in PkceTokens}

AuthorizationCodeRequests ==
    {[BaseReq EXCEPT !.code = c, !.redirect_uri = r, !.code_verifier = v,
                     !.client_assertion = a, !.client_assertion_type = t] :
        c \in Codes,
        r \in {Undefined, RedirectUri, "https://evil.example/cb"},
        v \in {Undefined} \cup Verifiers,
        a \in {NoAssertion, BaseAssertion},
        t \in {Undefined, JwtBearer, "urn:other"}}


\* Slice: the claims and headers of the client assertion, the simulated
\* errors of validateClientAssertion and where the keys would come from.
JwksUrl == "https://client.example/jwks"

ClaimAssertions ==
    {AssertionJwt([typ |-> typ, kid |-> kid, alg |-> alg, jku |-> jku],
                  [iss |-> iss, sub |-> sub, aud |-> aud, exp |-> exp, jti |-> jti],
                  "pub-1") :
        typ \in {"JWT", "jwt"}, kid \in {Undefined, "kid-a"}, alg \in {Undefined, "RS384"},
        jku \in {Undefined, "https://evil.example/jwks"},
        iss \in {Undefined, "client-1"}, sub \in {Undefined, "client-1", "client-2"},
        aud \in {<<>>, <<"http", "://launcher.example", "/v/r4/auth/token">>,
                 <<"https", "://evil.example", "/token">>},
        exp \in {Undefined, "future"}, jti \in {Undefined, "jti-1"}}

AssertionClaimRequests ==
    {[BaseReq EXCEPT !.code = SignedCode([BaseToken EXCEPT !.auth_error = e, !.jwks_url = u]),
                     !.client_assertion = a,
                     !.client_assertion_type = JwtBearer] :
        e \in {Undefined, "token_expired_registration_token", "token_invalid_jti"},
        u \in {Undefined, JwksUrl},
        a \in ClaimAssertions \cup {GarbageAssertion}}

\* Slice: key resolution.  The assertion passes the claim checks; its kid,
\* alg, jku, signer and expiry vary, with the client's jwks_url (the JWKS is
\* then whatever the fetch answers) ...
KeyAssertions ==
    {AssertionJwt([typ |-> "JWT", kid |-> kid, alg |-> alg, jku |-> jku],
                  [BaseAssertion.payload EXCEPT !.exp = exp],
                  signer) :
        kid \in Kids, alg \in Algs, jku \in {Undefined, JwksUrl, "https://evil.example/jwks"},
        signer \in {"pub-1", "pub-2"}, exp \in {"past", "future"}}

FetchedKeyRequests ==
    {[BaseReq EXCEPT !.code = SignedCode([BaseToken EXCEPT !.jwks_url = u, !.jwks = j]),
                     !.client_assertion = a,
                     !.client_assertion_type = JwtBearer] :
        u \in {Undefined, JwksUrl},
        j \in {NoInlineJwks, BaseInlineJwks},
        a \in KeyAssertions}

\* ... and with the client's inline jwks, as an object or as a string.
InlineJwksValues ==
    {NoInlineJwks, InlineJwks("string", JwksDoc("invalid", <<>>))}
    \cup {InlineJwks("string", d) : d \in MalformedDocs \cup {BaseInlineJwks.doc}}
    \cup {InlineJwks("object", d) :
            d \in (MalformedDocs \ {JwksDoc("null", <<>>)}) \cup JwksDocs}

InlineKeyRequests ==
    {[BaseReq EXCEPT !.code = SignedCode([BaseToken EXCEPT !.jwks = j]),
                     !.client_assertion = a,
                     !.client_assertion_type = JwtBearer] :
        j \in InlineJwksValues,
        a \in {k \in KeyAssertions : k.header.jku = Undefined}}

\* Slice: the Authorization header against the client's credentials, on
\* both grants.  A refresh_token is any token signed with the secret.
AuthorizationHeaders ==
    {NoAuthorization,
     BasicAuth("Bearer", <<"client-1", "secret-1">>),
     BasicAuth("Basic", <<>>),
     BasicAuth("Basic", <<"client-1">>),
     BasicAuth("Basic", <<"client-1", "secret-1">>),
     BasicAuth("basic", <<"client-1", "secret-1">>),
     BasicAuth("Basic", <<"client-1", "secret-2">>),
     BasicAuth("Basic", <<"client-2", "secret-1">>),
     BasicAuth("Basic", <<"client-1", "">>),
     BasicAuth("Basic", <<"client-1", "secret-1", "x">>)}

GrantOf(g, token) ==
    IF g = "authorization_code"
      THEN [BaseReq EXCEPT !.code = SignedCode(token)]
      ELSE [BaseReq EXCEPT !.grant_type = "refresh_token", !.code = NoJwt,
                           !.redirect_uri = Undefined,
                           !.refresh_token = Jwt(token, config.jwtSecret, NoValue, FALSE)]

BasicAuthRequests ==
    {[GrantOf(g, [BaseToken EXCEPT !.client_id = c, !.client_secret = s, !.auth_error = e])
        EXCEPT !.authorization = h] :
        g \in {"authorization_code", "refresh_token"},
        c \in {Undefined, "client-1"},
        s \in {Undefined, "", "secret-1"},
        e \in AuthErrors,
        h \in AuthorizationHeaders}

\* Slice: what finish puts in the response, on both grants.
ScopeStrings ==
    {<<>>,
     <<"openid">>,
     <<"profile">>,
     <<"openid", " ", "profile">>,
     <<"openid", "%20", "fhirUser">>,
     <<"openid", "profile">>,
     <<"openid", "+", "profile">>,
     <<"offline_access">>,
     <<"launch", "%20", "online_access">>,
     <<" ", "openid", " ", " ", "fhirUser", " ", "offline_access">>}

Contexts == {{}, ContextKeys} \cup {{k} : k \in ContextKeys}

ResponseRequests ==
    {GrantOf(g, [BaseToken EXCEPT !.scope = s, !.user = u, !.context = c,
                                  !.accessTokensExpireIn = x, !.auth_error = e]) :
        g \in {"authorization_code", "refresh_token"},
        s \in ScopeStrings,
        u \in {Undefined, "", "Practitioner/1"},
        c \in Contexts,
        x \in {NoValue} \cup 0..MaxExpire,
        e \in {Undefined, "token_invalid_token", "request_invalid_token",
               "request_expired_token"}}

\* Slice: the refresh_token parameter itself: absent, no token, signed with
\* another secret, past its lifetime, or signed by the server, with and
\* without credentials.
RefreshTokens ==
    {NoJwt, GarbageJwt}
    \cup {Jwt([BaseToken EXCEPT !.auth_error = e, !.client_secret = s], k, NoValue, x) :
            e \in {Undefined, "token_expired_refresh_token", "auth_invalid_client_secret"},
            s \in {Undefined, "secret-1"},
            k \in {config.jwtSecret, "anotherSecret"},
            x \in BOOLEAN}

RefreshTokenRequests ==
    {[BaseReq EXCEPT !.grant_type = "refresh_token", !.code = NoJwt,
                     !.redirect_uri = Undefined,
                     !.refresh_token = r, !.authorization = h] :
        r \in RefreshTokens,
        h \in {NoAuthorization,
               BasicAuth("Basic", <<"client-1", "secret-1">>),
               BasicAuth("Basic", <<"client-1", "secret-2">>)}}

\* Slice: a client_assertion and its client_assertion_type, for clients
\* with and without registered keys.
AssertionTypes == {Undefined, "", JwtBearer, "urn:other",
                   "URN:IETF:PARAMS:OAUTH:CLIENT-ASSERTION-TYPE:JWT-BEARER"}

TypedAssertionRequests ==
    {[BaseReq EXCEPT !.code = SignedCode([BaseToken EXCEPT !.jwks_url = u, !.jwks = j]),
                     !.client_assertion = a,
                     !.client_assertion_type = t] :
        u \in {Undefined, JwksUrl},
        j \in {NoInlineJwks, BaseInlineJwks},
        a \in {NoAssertion, GarbageAssertion, BaseAssertion,
               [BaseAssertion EXCEPT !.signedBy = "pub-2"]},
        t \in AssertionTypes}

\* Slice: codes whose token has every claim, for public and confidential
\* clients, answered with a refresh token or without.
FullToken ==
    [ redirect_uri          |-> RedirectUri,
      code_challenge        |-> Sha256Base64Url("verifier-two"),
      code_challenge_method |-> "S256",
      client_id             |-> "client-1",
      client_secret         |-> "secret-1",
      jwks_url              |-> JwksUrl,
      jwks                  |-> BaseInlineJwks,
      scope                 |-> <<"launch", "%20", "offline_access">>,
      user                  |-> "Practitioner/1",
      context               |-> {"patient"},
      nonce                 |-> "nonce-1",
      accessTokensExpireIn  |-> 1,
      auth_error            |-> Undefined ]

FullTokenRequests ==
    {[BaseReq EXCEPT !.code = SignedCode([FullToken EXCEPT !.client_secret = s, !.scope = sc,
                                                           !.context = c, !.auth_error = e]),
                     !.code_verifier = "verifier-two",
                     !.authorization = h] :
        s \in {Undefined, "secret-1"},
        sc \in {<<"launch">>, <<"online_access">>, <<"launch", "%20", "offline_access">>},
        c \in {{}, {"patient"}, {"refresh_token"}, {"scope", "access_token"}},
        e \in AuthErrors,
        h \in {NoAuthorization, BasicAuth("Basic", <<"client-1", "secret-1">>)}}

Requests ==
    GrantRequests \cup AuthorizationCodeRequests \cup AssertionClaimRequests
    \cup FetchedKeyRequests \cup InlineKeyRequests \cup BasicAuthRequests
    \cup ResponseRequests \cup RefreshTokenRequests \cup TypedAssertionRequests
    \cup FullTokenRequests

\* ------------------------------------------------------------------ state
VARIABLES
    req,                 \* this.request: body parameters and Authorization header
    pc,                  \* the check the handler is at; "failed", "done" when it ended
    authorizationToken,  \* the verified claims of the code or refresh token
    jwks,                \* the resolved JWKS document
    key,                 \* the key pickPublicKey returned
    tokenResponse,       \* the response body finish builds
    response,            \* this.response: headers set, body sent
    err,                 \* the error thrown
    log,                 \* the checks evaluated so far, in order
    fetches,             \* the URLs fetchJwks requested, in order
    chain                \* the grants so far: how many, the first request, and the
                         \* token the refresh token now presented was issued for

vars == <<req, pc, authorizationToken, jwks, key, tokenResponse, response, err, log,
          fetches, chain>>

NoBody ==
    [ access_token  |-> NoJwt,
      token_type    |-> Undefined,
      expires_in    |-> NoValue,
      scope         |-> <<>>,
      id_token      |-> NoJwt,
      refresh_token |-> NoJwt,
      sim_error     |-> Undefined,
      patient       |-> Undefined ]

NoResponse == [headers |-> {}, sent |-> FALSE, body |-> NoBody]

Init ==
    /\ req \in Requests
    /\ pc = "handle"
    /\ authorizationToken = EmptyToken
    /\ jwks = NoJwks
    /\ key = NoKey
    /\ tokenResponse = NoBody
    /\ response = NoResponse
    /\ err = NoError
    /\ log = <<>>
    /\ fetches = <<>>
    /\ chain = [grants |-> 1, first |-> req, issuedFor |-> EmptyToken]

\* One check of the handler: it is evaluated (logged); when it fails the
\* error is thrown and nothing else of the request runs, otherwise control
\* moves on to `next`.
Check(at, failed, error, next) ==
    /\ pc = at
    /\ log' = Append(log, at)
    /\ IF failed
         THEN pc' = "failed" /\ err' = error
         ELSE pc' = next /\ err' = err


\* Mutant of handle: a request without grant_type is taken for an
\* authorization_code grant.
handleDefaultsToAuthorizationCode ==
    /\ Check("handle",
             req.grant_type \notin {Undefined, "authorization_code", "refresh_token"},
             OAuthError("Invalid or missing grant_type parameter", "unsupported_grant_type", 400),
             IF req.grant_type = "refresh_token" THEN "VerifyRefreshToken" ELSE "RequireCode")
    /\ UNCHANGED <<chain, req, authorizationToken, jwks, key, tokenResponse, response, fetches>>

\* -------------------------------------------------- TokenHandler.handle
handle ==
    /\ Check("handle",
             req.grant_type \notin {"authorization_code", "refresh_token"},
             OAuthError("Invalid or missing grant_type parameter", "unsupported_grant_type", 400),
             IF req.grant_type = "authorization_code" THEN "RequireCode" ELSE "VerifyRefreshToken")
    /\ UNCHANGED <<chain, req, authorizationToken, jwks, key, tokenResponse, response, fetches>>


\* Mutant of RequireCode: the code is verified before redirect_uri is
\* required.
RequireCodeThenVerify ==
    /\ Check("RequireCode",
             req.code.form = "undefined",
             InvalidClientError("Missing 'code' parameter", 400),
             "VerifyCode")
    /\ UNCHANGED <<chain, req, authorizationToken, jwks, key, tokenResponse, response, fetches>>

\* --------------------------------- TokenHandler.handleAuthorizationCode
RequireCode ==
    /\ Check("RequireCode",
             req.code.form = "undefined",
             InvalidClientError("Missing 'code' parameter", 400),
             "RequireRedirectUri")
    /\ UNCHANGED <<chain, req, authorizationToken, jwks, key, tokenResponse, response, fetches>>

RequireRedirectUri ==
    /\ Check("RequireRedirectUri",
             Falsy(req.redirect_uri),
             InvalidRequestError("Missing 'redirect_uri' parameter", 400),
             "VerifyCode")
    /\ UNCHANGED <<chain, req, authorizationToken, jwks, key, tokenResponse, response, fetches>>

VerifyCode ==
    /\ Check("VerifyCode",
             ~JwtVerifies(req.code, config.jwtSecret),
             InvalidClientError("Invalid token (supplied as code parameter in the POST body)", 401),
             "RequireTokenRedirectUri")
    /\ authorizationToken' =
          IF JwtVerifies(req.code, config.jwtSecret) THEN req.code.payload ELSE authorizationToken
    /\ UNCHANGED <<chain, req, jwks, key, tokenResponse, response, fetches>>

RequireTokenRedirectUri ==
    /\ Check("RequireTokenRedirectUri",
             Falsy(authorizationToken.redirect_uri),
             InvalidClientError("The authorization token must include redirect_uri", 401),
             "MatchRedirectUri")
    /\ UNCHANGED <<chain, req, authorizationToken, jwks, key, tokenResponse, response, fetches>>

MatchRedirectUri ==
    /\ Check("MatchRedirectUri",
             authorizationToken.redirect_uri # req.redirect_uri,
             InvalidRequestError("Invalid redirect_uri parameter", 401),
             IF Falsy(authorizationToken.code_challenge_method)
               THEN "ClientAssertion" ELSE "CodeChallengeMethod")
    /\ UNCHANGED <<chain, req, authorizationToken, jwks, key, tokenResponse, response, fetches>>

\* "We support only 'S256'": reached only when the token has a method
CodeChallengeMethod ==
    /\ Check("CodeChallengeMethod",
             authorizationToken.code_challenge_method # "S256",
             InvalidRequestError("Unsupported code_challenge_method. We support only 'S256'", 400),
             "RequireCodeVerifier")
    /\ UNCHANGED <<chain, req, authorizationToken, jwks, key, tokenResponse, response, fetches>>

RequireCodeVerifier ==
    /\ Check("RequireCodeVerifier",
             Falsy(req.code_verifier),
             InvalidRequestError("Missing code_verifier parameter", 400),
             "VerifyCodeChallenge")
    /\ UNCHANGED <<chain, req, authorizationToken, jwks, key, tokenResponse, response, fetches>>


\* Mutant of VerifyCodeChallenge: the verifier is compared unhashed, as the
\* "plain" method would.
VerifyCodeChallengePlain ==
    /\ Check("VerifyCodeChallenge",
             req.code_verifier # authorizationToken.code_challenge,
             OAuthError("Invalid grant or Invalid PKCE Verifier", "invalid_grant", 401),
             "ClientAssertion")
    /\ UNCHANGED <<chain, req, authorizationToken, jwks, key, tokenResponse, response, fetches>>

VerifyCodeChallenge ==
    /\ Check("VerifyCodeChallenge",
             Sha256Base64Url(req.code_verifier) # authorizationToken.code_challenge,
             OAuthError("Invalid grant or Invalid PKCE Verifier", "invalid_grant", 401),
             "ClientAssertion")
    /\ UNCHANGED <<chain, req, authorizationToken, jwks, key, tokenResponse, response, fetches>>


\* Mutant of ClientAssertion: an assertion is validated whatever its
\* client_assertion_type.
ClientAssertionAnyType ==
    /\ pc = "ClientAssertion"
    /\ log' = Append(log, "ClientAssertion")
    /\ pc' = IF req.client_assertion.form # "undefined"
               THEN "DecodeAssertion" ELSE "validateBasicAuth"
    /\ UNCHANGED <<chain, req, authorizationToken, jwks, key, tokenResponse, response, err, fetches>>

\* "Validate asymmetric authorization": the branch of lines 131-135
ClientAssertion ==
    /\ pc = "ClientAssertion"
    /\ log' = Append(log, "ClientAssertion")
    /\ pc' = IF req.client_assertion.form # "undefined"
                /\ req.client_assertion_type = JwtBearer
               THEN "DecodeAssertion" ELSE "validateBasicAuth"
    /\ UNCHANGED <<chain, req, authorizationToken, jwks, key, tokenResponse, response, err, fetches>>


\* --------------------------------- TokenHandler.validateClientAssertion
\* jwt.decode(clientAssertion, { complete: true }) and the destructuring of
\* its result
DecodeAssertion ==
    /\ Check("DecodeAssertion",
             req.client_assertion.form # "jwt",
             InvalidRequestError("Could not decode the client_assertion parameter", 401),
             "RequireIss")
    /\ UNCHANGED <<chain, req, authorizationToken, jwks, key, tokenResponse, response, fetches>>

RequireIss ==
    /\ Check("RequireIss", Falsy(req.client_assertion.payload.iss),
             InvalidClientError("Missing token 'iss' claim", 401), "RequireSub")
    /\ UNCHANGED <<chain, req, authorizationToken, jwks, key, tokenResponse, response, fetches>>

RequireSub ==
    /\ Check("RequireSub", Falsy(req.client_assertion.payload.sub),
             InvalidClientError("Missing token 'sub' claim", 401), "RequireAud")
    /\ UNCHANGED <<chain, req, authorizationToken, jwks, key, tokenResponse, response, fetches>>

RequireAud ==
    /\ Check("RequireAud", req.client_assertion.payload.aud = <<>>,
             InvalidClientError("Missing token 'aud' claim", 401), "RequireExp")
    /\ UNCHANGED <<chain, req, authorizationToken, jwks, key, tokenResponse, response, fetches>>

RequireExp ==
    /\ Check("RequireExp", Falsy(req.client_assertion.payload.exp),
             InvalidClientError("Missing token 'exp' claim", 401), "RequireJti")
    /\ UNCHANGED <<chain, req, authorizationToken, jwks, key, tokenResponse, response, fetches>>

RequireJti ==
    /\ Check("RequireJti", Falsy(req.client_assertion.payload.jti),
             InvalidClientError("Missing token 'jti' claim", 401), "RequireTyp")
    /\ UNCHANGED <<chain, req, authorizationToken, jwks, key, tokenResponse, response, fetches>>

RequireTyp ==
    /\ Check("RequireTyp", req.client_assertion.header.typ # "JWT",
             InvalidClientError("Invalid token 'typ' header. Must be 'JWT'.", 401), "RequireKid")
    /\ UNCHANGED <<chain, req, authorizationToken, jwks, key, tokenResponse, response, fetches>>

RequireKid ==
    /\ Check("RequireKid", Falsy(req.client_assertion.header.kid),
             InvalidClientError("Missing token 'kid' header", 401), "RequireAlg")
    /\ UNCHANGED <<chain, req, authorizationToken, jwks, key, tokenResponse, response, fetches>>

RequireAlg ==
    /\ Check("RequireAlg", Falsy(req.client_assertion.header.alg),
             InvalidClientError("Missing token 'alg' header", 401), "ExpiredRegistrationToken")
    /\ UNCHANGED <<chain, req, authorizationToken, jwks, key, tokenResponse, response, fetches>>


\* Mutant of ExpiredRegistrationToken: the simulated error is decided after
\* iss and sub are compared.
ExpiredRegistrationTokenAfterIssSub ==
    /\ Check("ExpiredRegistrationToken",
             req.client_assertion.payload.iss = req.client_assertion.payload.sub
             /\ authorizationToken.auth_error = "token_expired_registration_token",
             InvalidClientError("Registration token expired", 401), "InvalidJti")
    /\ UNCHANGED <<chain, req, authorizationToken, jwks, key, tokenResponse, response, fetches>>

\* simulated errors
ExpiredRegistrationToken ==
    /\ Check("ExpiredRegistrationToken",
             authorizationToken.auth_error = "token_expired_registration_token",
             InvalidClientError("Registration token expired", 401), "InvalidJti")
    /\ UNCHANGED <<chain, req, authorizationToken, jwks, key, tokenResponse, response, fetches>>

InvalidJti ==
    /\ Check("InvalidJti",
             authorizationToken.auth_error = "token_invalid_jti",
             InvalidClientError("Simulated invalid 'jti' value", 401), "MatchIssSub")
    /\ UNCHANGED <<chain, req, authorizationToken, jwks, key, tokenResponse, response, fetches>>

MatchIssSub ==
    /\ Check("MatchIssSub",
             req.client_assertion.payload.iss # req.client_assertion.payload.sub,
             InvalidClientError("The token sub does not match the token iss claim", 401),
             "MatchAud")
    /\ UNCHANGED <<chain, req, authorizationToken, jwks, key, tokenResponse, response, fetches>>

\* aud = this.baseUrl + this.request.originalUrl, compared without scheme
MatchAud ==
    /\ Check("MatchAud",
             StripScheme(TokenUrl) # StripScheme(req.client_assertion.payload.aud),
             InvalidClientError("Invalid token 'aud' value", 401),
             "ResolveJwks")
    /\ UNCHANGED <<chain, req, authorizationToken, jwks, key, tokenResponse, response, fetches>>


\* Mutant of JwksSource: the jku of the assertion is fetched without
\* comparing it with the registered jwks_url.
JwksSourceAnyJku(jku, client) ==
    IF ~Falsy(jku)
      THEN [source |-> "fetch", url |-> jku, doc |-> NoJwks, error |-> NoError]
    ELSE IF ~Falsy(client.jwks_url)
      THEN [source |-> "fetch", url |-> client.jwks_url, doc |-> NoJwks, error |-> NoError]
    ELSE IF client.jwks.form \in {"string", "object"} /\ client.jwks.doc.shape # "invalid"
      THEN [source |-> "inline", url |-> Undefined, doc |-> client.jwks.doc, error |-> NoError]
    ELSE [source |-> "error", url |-> Undefined, doc |-> NoJwks,
          error |-> InvalidClientError("No JWKS or JWKS URL found for this client", 401)]

\* Lines 224-263: where the JWKS comes from.  source is "error", "fetch"
\* (of url) or "inline" (doc).
JwksSource(jku, client) ==
    IF ~Falsy(jku)
      THEN IF ~Falsy(client.jwks_url) /\ jku # client.jwks_url
             THEN [source |-> "error", url |-> Undefined, doc |-> NoJwks,
                   error |-> InvalidClientError("jku not whitelisted", 401)]
             ELSE [source |-> "fetch", url |-> jku, doc |-> NoJwks, error |-> NoError]
    ELSE IF ~Falsy(client.jwks_url)
      THEN [source |-> "fetch", url |-> client.jwks_url, doc |-> NoJwks, error |-> NoError]
    ELSE IF client.jwks.form = "string"
      THEN IF client.jwks.doc.shape = "invalid"
             THEN [source |-> "error", url |-> Undefined, doc |-> NoJwks,
                   error |-> InvalidClientError("Invalid JWKS json", 401)]
             ELSE [source |-> "inline", url |-> Undefined, doc |-> client.jwks.doc,
                   error |-> NoError]
    ELSE IF client.jwks.form = "object"
      THEN [source |-> "inline", url |-> Undefined, doc |-> client.jwks.doc, error |-> NoError]
    ELSE [source |-> "error", url |-> Undefined, doc |-> NoJwks,
          error |-> InvalidClientError("No JWKS or JWKS URL found for this client", 401)]

ResolveJwks ==
    LET src == JwksSource(req.client_assertion.header.jku, authorizationToken)
    IN  /\ Check("ResolveJwks", src.source = "error", src.error,
                 IF src.source = "fetch" THEN "fetchJwks" ELSE "validateJwks")
        /\ fetches' = IF src.source = "fetch" THEN Append(fetches, src.url) ELSE fetches
        /\ jwks' = IF src.source = "inline" THEN src.doc ELSE jwks
        /\ UNCHANGED <<chain, req, authorizationToken, key, tokenResponse, response>>


\* Mutant of fetchJwks: a fetch that fails is tried once more.
fetchJwksRetry ==
    \E answer \in {JwksDoc(f, <<>>) : f \in {"transport failure", "status not ok", "invalid"}}
                  \cup MalformedDocs \cup JwksDocs :
        LET failure == answer.shape \in {"transport failure", "status not ok", "invalid"}
            again == failure /\ Len(fetches) < 2
        IN  /\ pc = "fetchJwks"
            /\ log' = Append(log, "fetchJwks")
            /\ pc' = IF again THEN "fetchJwks" ELSE IF failure THEN "failed" ELSE "validateJwks"
            /\ err' = IF failure /\ ~again
                        THEN InvalidClientError("Failed to fetch JWKS", 401) ELSE err
            /\ fetches' = IF again THEN Append(fetches, fetches[1]) ELSE fetches
            /\ jwks' = IF failure THEN jwks ELSE answer
            /\ UNCHANGED <<chain, req, authorizationToken, key, tokenResponse, response>>

\* fetchJwks: the answer to the GET arrives.  The transport fails, the
\* status is not ok, the body is no JSON, or the body is some JSON value.
fetchJwks ==
    \E answer \in {JwksDoc(f, <<>>) : f \in {"transport failure", "status not ok", "invalid"}}
                  \cup MalformedDocs \cup JwksDocs :
        /\ Check("fetchJwks",
                 answer.shape \in {"transport failure", "status not ok", "invalid"},
                 InvalidClientError("Failed to fetch JWKS", 401),
                 "validateJwks")
        /\ jwks' = IF answer.shape \in {"transport failure", "status not ok", "invalid"}
                     THEN jwks ELSE answer
        /\ UNCHANGED <<chain, req, authorizationToken, key, tokenResponse, response, fetches>>

validateJwksError(doc) ==
    IF doc.shape \in {"undefined", "null", "array"}
      THEN InvalidClientError("JWKS is not an object", 401)
    ELSE IF doc.shape = "nokeys"
      THEN InvalidClientError("JWKS does not have a keys property", 401)
    ELSE IF doc.shape = "keysNotArray"
      THEN InvalidClientError("jwks.keys must be an array", 401)
    ELSE NoError

validateJwks ==
    /\ Check("validateJwks", validateJwksError(jwks) # NoError, validateJwksError(jwks),
             "pickPublicKey")
    /\ UNCHANGED <<chain, req, authorizationToken, jwks, key, tokenResponse, response, fetches>>

\* pickPublicKey(keys, kid, alg): the key, or the error thrown
Picked(k) == [error |-> NoError, key |-> k]
NotPicked(msg) == [error |-> InvalidClientError(msg, 401), key |-> NoKey]

PickPublicKey(keys, kid, alg) ==
    IF Len(keys) = 0 THEN NotPicked("No usable keys found")
    ELSE LET algKeys == SelectSeq(keys, LAMBDA k : k.alg = alg)
             _keys   == SelectSeq(keys, LAMBDA k : k.kid = kid)
         IN  IF Len(algKeys) = 0
               THEN NotPicked("None of the keys found in the JWKS alg equal to alg")
             ELSE IF Len(_keys) = 0
               THEN NotPicked("None of the keys found in the JWKS kid equal to kid")
             ELSE IF Len(_keys) > 1
               THEN NotPicked("Multiple usable public keys found in the JWKS")
             ELSE IF _keys[1].pub = "malformed"
               THEN NotPicked("No usable public key found in the JWKS")
             ELSE Picked(_keys[1])

pickPublicKey ==
    LET got == PickPublicKey(jwks.keys, req.client_assertion.header.kid,
                             req.client_assertion.header.alg)
    IN  /\ Check("pickPublicKey", got.error # NoError, got.error, "VerifyAssertion")
        /\ key' = got.key
        /\ UNCHANGED <<chain, req, authorizationToken, jwks, tokenResponse, response, fetches>>

\* jwt.verify(clientAssertion, key.toPEM(), { algorithms }): does not throw
AssertionVerifies(a, k, algorithms) ==
    /\ a.header.alg \in algorithms
    /\ a.signedBy = k.pub
    /\ a.payload.exp # "past"

VerifyAssertion ==
    /\ Check("VerifyAssertion",
             ~AssertionVerifies(req.client_assertion, key, config.supportedAlgorithms),
             InvalidClientError("Invalid token", 401),
             "validateBasicAuth")
    /\ UNCHANGED <<chain, req, authorizationToken, jwks, key, tokenResponse, response, fetches>>



\* Mutant of VerifyRefreshToken: the refresh token is decoded, its
\* signature and lifetime are not verified.
VerifyRefreshTokenDecodeOnly ==
    /\ Check("VerifyRefreshToken",
             req.refresh_token.form # "jwt",
             OAuthError("Invalid refresh token", "invalid_grant", 401),
             "ExpiredRefreshToken")
    /\ authorizationToken' =
          IF req.refresh_token.form = "jwt" THEN req.refresh_token.payload ELSE authorizationToken
    /\ UNCHANGED <<chain, req, jwks, key, tokenResponse, response, fetches>>

\* -------------------------------------- TokenHandler.handleRefreshToken
VerifyRefreshToken ==
    /\ Check("VerifyRefreshToken",
             ~JwtVerifies(req.refresh_token, config.jwtSecret),
             OAuthError("Invalid refresh token", "invalid_grant", 401),
             "ExpiredRefreshToken")
    /\ authorizationToken' =
          IF JwtVerifies(req.refresh_token, config.jwtSecret)
            THEN req.refresh_token.payload ELSE authorizationToken
    /\ UNCHANGED <<chain, req, jwks, key, tokenResponse, response, fetches>>


\* Mutant of ExpiredRefreshToken: the refresh path goes on to issue the
\* tokens without validateBasicAuth.
ExpiredRefreshTokenThenIssue ==
    /\ Check("ExpiredRefreshToken",
             authorizationToken.auth_error = "token_expired_refresh_token",
             OAuthError("Expired refresh token", "invalid_grant", 403),
             "InvalidToken")
    /\ UNCHANGED <<chain, req, authorizationToken, jwks, key, tokenResponse, response, fetches>>

ExpiredRefreshToken ==
    /\ Check("ExpiredRefreshToken",
             authorizationToken.auth_error = "token_expired_refresh_token",
             OAuthError("Expired refresh token", "invalid_grant", 403),
             "validateBasicAuth")
    /\ UNCHANGED <<chain, req, authorizationToken, jwks, key, tokenResponse, response, fetches>>


\* Mutant of ValidateBasicAuth: a request without Basic credentials is let
\* through for a confidential client too.
ValidateBasicAuthOptional(token, authHeader) ==
    IF token.auth_error = "auth_invalid_client_secret"
      THEN InvalidClientError("Simulated invalid client secret error", 401)
    ELSE IF ~IsBasic(authHeader)
      THEN NoError
    ELSE IF authHeader.parts = <<>>
      THEN InvalidRequestError("The authorization header cannot be empty", 401)
    ELSE IF Len(authHeader.parts) # 2
      THEN InvalidRequestError("The decoded header must contain '{client_id}:{client_secret}'", 401)
    ELSE IF ~Falsy(token.client_id) /\ token.client_id # authHeader.parts[1]
      THEN InvalidClientError("Invalid client_id in the basic auth header", 401)
    ELSE IF token.client_secret # authHeader.parts[2]
      THEN InvalidClientError("Invalid client_secret in the basic auth header", 401)
    ELSE NoError

\* --------------------------------------- TokenHandler.validateBasicAuth
\* The error validateBasicAuth throws for this token and Authorization
\* header, NoError when it returns.
ValidateBasicAuth(token, authHeader) ==
    IF token.auth_error = "auth_invalid_client_secret"
      THEN InvalidClientError("Simulated invalid client secret error", 401)
    ELSE IF ~IsBasic(authHeader)
      THEN IF ~Falsy(token.client_secret)
             THEN InvalidRequestError("Basic authentication is required for confidential clients", 401)
             ELSE NoError
    ELSE IF authHeader.parts = <<>>
      THEN InvalidRequestError("The authorization header cannot be empty", 401)
    ELSE IF Len(authHeader.parts) # 2
      THEN InvalidRequestError("The decoded header must contain '{client_id}:{client_secret}'", 401)
    ELSE IF ~Falsy(token.client_id) /\ token.client_id # authHeader.parts[1]
      THEN InvalidClientError("Invalid client_id in the basic auth header", 401)
    ELSE IF token.client_secret # authHeader.parts[2]
      THEN InvalidClientError("Invalid client_secret in the basic auth header", 401)
    ELSE NoError

\* ---------------------------------------------------- createIdToken etc.
\* crypto.createHash('sha256').update(user).digest('hex')
Sha256Hex(user) ==
    CASE user = "Practitioner/1" ->
           "7aeb3eb5c322dbbd8ab88a6fffc12e4720fe61b74dd05e8ec0b0b5b56456ae96"
      [] OTHER -> Undefined

createIdToken(clientDetailsToken) ==
    [ form       |-> "jwt",
      payload    |-> [ profile  |-> clientDetailsToken.user,
                       fhirUser |-> clientDetailsToken.user,
                       aud      |-> clientDetailsToken.client_id,
                       sub      |-> Sha256Hex(clientDetailsToken.user),
                       iss      |-> <<"https", "://launcher.example", "/v/r4", "/fhir">> ],
      signedWith |-> config.privateKeyAsPem,
      expiresIn  |-> (IF FalsyNum(clientDetailsToken.accessTokensExpireIn)
                        THEN 60 ELSE clientDetailsToken.accessTokensExpireIn) * 60,
      expired    |-> FALSE ]




\* Mutant of generateRefreshToken: client_secret is copied as well.
generateRefreshTokenWithClientSecret(code) ==
    Jwt([EmptyToken EXCEPT !.context = code.context,
                           !.client_secret = code.client_secret,
                           !.scope = code.scope,
                           !.user = code.user,
                           !.auth_error = code.auth_error],
        config.jwtSecret,
        config.refreshTokenLifeTime * 60,
        FALSE)

\* Mutant of generateRefreshToken: auth_error is not copied.
generateRefreshTokenUntagged(code) ==
    Jwt([EmptyToken EXCEPT !.context = code.context,
                           !.scope = code.scope,
                           !.user = code.user],
        config.jwtSecret,
        config.refreshTokenLifeTime * 60,
        FALSE)

\* Mutant of generateRefreshToken: client_id is copied as well.
generateRefreshTokenWithClientId(code) ==
    Jwt([EmptyToken EXCEPT !.context = code.context,
                           !.client_id = code.client_id,
                           !.scope = code.scope,
                           !.user = code.user,
                           !.auth_error = code.auth_error],
        config.jwtSecret,
        config.refreshTokenLifeTime * 60,
        FALSE)

generateRefreshToken(code) ==
    Jwt([EmptyToken EXCEPT !.context = code.context,
                           !.scope = code.scope,
                           !.user = code.user,
                           !.auth_error = code.auth_error],
        config.jwtSecret,
        config.refreshTokenLifeTime * 60,
        FALSE)

\* ------------------------------------------------- TokenHandler.finish
\* The value a key of token.context carries (one per key: only which keys
\* the map has matters to the response).
ForeignJwt == [NoJwt EXCEPT !.form = "context"]

ContextValue(k) ==
    CASE k = "patient" -> "Patient/ctx"
      [] k = "token_type" -> "ctx-token-type"
      [] k = "expires_in" -> 7
      [] k = "scope" -> <<"ctx-scope">>
      [] k \in {"id_token", "refresh_token", "access_token"} -> ForeignJwt

\* { ...base, ...context }
Spread(base, context) ==
    [k \in DOMAIN base |-> IF k \in context THEN ContextValue(k) ELSE base[k]]

ExpiresIn(token) ==
    IF ~FalsyNum(token.accessTokensExpireIn)
      THEN token.accessTokensExpireIn * 60
      ELSE config.accessTokenLifetime * 60


\* Mutant of WantsIdToken: openid alone is enough.
WantsIdTokenForOpenid(token, scope) ==
    ~Falsy(token.user) /\ ScopeHas(scope, "openid")

WantsIdToken(token, scope) ==
    /\ ~Falsy(token.user)
    /\ ScopeHas(scope, "openid")
    /\ (ScopeHas(scope, "profile") \/ ScopeHas(scope, "fhirUser"))


\* Mutant of WantsRefreshToken: online_access is forgotten.
WantsRefreshTokenOffline(scope) ==
    ScopeHas(scope, "offline_access")

WantsRefreshToken(scope) ==
    ScopeHas(scope, "offline_access") \/ ScopeHas(scope, "online_access")

SimError(token, current) ==
    IF token.auth_error = "request_invalid_token" THEN "Invalid token"
    ELSE IF token.auth_error = "request_expired_token" THEN "Token expired"
    ELSE current

AccessToken(token, expiresIn) ==
    Jwt([EmptyToken EXCEPT !.scope = token.scope,
                           !.jwks_url = token.jwks_url,
                           !.jwks = token.jwks,
                           !.code_challenge_method = token.code_challenge_method,
                           !.code_challenge = token.code_challenge,
                           !.client_secret = token.client_secret,
                           !.nonce = token.nonce,
                           !.auth_error = token.auth_error],
        config.jwtSecret, expiresIn, FALSE)


\* Mutant of TokenResponse: the access token is signed before the context
\* map is merged in.
TokenResponseContextLast(token) ==
    LET scope == ScopeSet(decodeURIComponent(token.scope))
        expiresIn == ExpiresIn(token)
        built == Spread([ access_token  |-> AccessToken(token, expiresIn),
                          token_type    |-> "Bearer",
                          expires_in    |-> expiresIn,
                          scope         |-> token.scope,
                          id_token      |-> IF WantsIdToken(token, scope)
                                              THEN createIdToken(token) ELSE NoJwt,
                          refresh_token |-> IF WantsRefreshToken(scope)
                                              THEN generateRefreshToken(token) ELSE NoJwt,
                          sim_error     |-> Undefined,
                          patient       |-> Undefined ],
                        token.context)
    IN  [built EXCEPT !.sim_error = SimError(token, built.sim_error)]

\* Lines 474-516: the body of the response for this token
TokenResponse(token) ==
    LET scope == ScopeSet(decodeURIComponent(token.scope))
        expiresIn == ExpiresIn(token)
        built == Spread([ access_token  |-> NoJwt,
                          token_type    |-> "Bearer",
                          expires_in    |-> expiresIn,
                          scope         |-> token.scope,
                          id_token      |-> IF WantsIdToken(token, scope)
                                              THEN createIdToken(token) ELSE NoJwt,
                          refresh_token |-> IF WantsRefreshToken(scope)
                                              THEN generateRefreshToken(token) ELSE NoJwt,
                          sim_error     |-> Undefined,
                          patient       |-> Undefined ],
                        token.context)
    IN  [built EXCEPT !.sim_error = SimError(token, built.sim_error),
                      !.access_token = AccessToken(token, expiresIn)]

validateBasicAuth ==
    /\ Check("validateBasicAuth",
             ValidateBasicAuth(authorizationToken, req.authorization) # NoError,
             ValidateBasicAuth(authorizationToken, req.authorization),
             "InvalidToken")
    /\ UNCHANGED <<chain, req, authorizationToken, jwks, key, tokenResponse, response, fetches>>


\* Mutant of InvalidToken: the headers are set before the simulated
\* invalid-token error is decided.
InvalidTokenAfterHeaders ==
    /\ Check("InvalidToken",
             authorizationToken.auth_error = "token_invalid_token",
             InvalidClientError("Simulated invalid client error", 401),
             "BuildTokenResponse")
    /\ response' = [response EXCEPT !.headers =
                       @ \cup {<<"Cache-Control", "no-store">>, <<"Pragma", "no-cache">>}]
    /\ UNCHANGED <<chain, req, authorizationToken, jwks, key, tokenResponse, fetches>>

InvalidToken ==
    /\ Check("InvalidToken",
             authorizationToken.auth_error = "token_invalid_token",
             InvalidClientError("Simulated invalid client error", 401),
             "BuildTokenResponse")
    /\ UNCHANGED <<chain, req, authorizationToken, jwks, key, tokenResponse, response, fetches>>

BuildTokenResponse ==
    /\ pc = "BuildTokenResponse"
    /\ log' = Append(log, "BuildTokenResponse")
    /\ tokenResponse' = TokenResponse(authorizationToken)
    /\ pc' = "SetHeaders"
    /\ UNCHANGED <<chain, req, authorizationToken, jwks, key, response, err, fetches>>


\* Mutant of SetHeaders: Pragma is forgotten.
SetHeadersCacheControlOnly ==
    /\ pc = "SetHeaders"
    /\ log' = Append(log, "SetHeaders")
    /\ response' = [response EXCEPT !.headers = @ \cup {<<"Cache-Control", "no-store">>}]
    /\ pc' = "SendJson"
    /\ UNCHANGED <<chain, req, authorizationToken, jwks, key, tokenResponse, err, fetches>>

\* res.set({ "Cache-Control": "no-store", "Pragma": "no-cache" })
SetHeaders ==
    /\ pc = "SetHeaders"
    /\ log' = Append(log, "SetHeaders")
    /\ response' = [response EXCEPT !.headers =
                       @ \cup {<<"Cache-Control", "no-store">>, <<"Pragma", "no-cache">>}]
    /\ pc' = "SendJson"
    /\ UNCHANGED <<chain, req, authorizationToken, jwks, key, tokenResponse, err, fetches>>

\* res.json(tokenResponse)
SendJson ==
    /\ pc = "SendJson"
    /\ log' = Append(log, "SendJson")
    /\ response' = [response EXCEPT !.sent = TRUE, !.body = tokenResponse]
    /\ pc' = "done"
    /\ UNCHANGED <<chain, req, authorizationToken, jwks, key, tokenResponse, err, fetches>>

\* ----------------------------------------------------- the next request
\* TokenHandler.handle(req, res) on the client's next request: a
\* refresh_token grant that presents the refresh_token of the response just
\* sent, at once or after its lifetime has passed, with no Authorization
\* header, with the one of the request before or with the one of the first
\* request.
NextGrant ==
    /\ pc = "done"
    /\ chain.grants < MaxGrants
    /\ response.body.refresh_token.form # "undefined"
    /\ \E h \in {NoAuthorization, req.authorization, chain.first.authorization},
          late \in BOOLEAN :
          req' = [ grant_type            |-> "refresh_token",
                   code                  |-> NoJwt,
                   redirect_uri          |-> Undefined,
                   code_verifier         |-> Undefined,
                   client_assertion      |-> NoAssertion,
                   client_assertion_type |-> Undefined,
                   refresh_token         |-> [response.body.refresh_token EXCEPT
                                                 !.expired = @ \/ late],
                   authorization         |-> h ]
    /\ chain' = [chain EXCEPT !.grants = @ + 1, !.issuedFor = authorizationToken]
    /\ pc' = "handle"
    /\ authorizationToken' = EmptyToken
    /\ jwks' = NoJwks
    /\ key' = NoKey
    /\ tokenResponse' = NoBody
    /\ response' = NoResponse
    /\ err' = NoError
    /\ log' = <<>>
    /\ fetches' = <<>>

\* ------------------------------------------------------------------ Next
Next ==
    \/ handle
    \/ RequireCode \/ RequireRedirectUri \/ VerifyCode \/ RequireTokenRedirectUri
    \/ MatchRedirectUri \/ CodeChallengeMethod \/ RequireCodeVerifier
    \/ VerifyCodeChallenge \/ ClientAssertion
    \/ DecodeAssertion \/ RequireIss \/ RequireSub \/ RequireAud \/ RequireExp
    \/ RequireJti \/ RequireTyp \/ RequireKid \/ RequireAlg
    \/ ExpiredRegistrationToken \/ InvalidJti \/ MatchIssSub \/ MatchAud
    \/ ResolveJwks \/ fetchJwks \/ validateJwks \/ pickPublicKey \/ VerifyAssertion
    \/ VerifyRefreshToken \/ ExpiredRefreshToken
    \/ validateBasicAuth \/ InvalidToken \/ BuildTokenResponse \/ SetHeaders \/ SendJson
    \/ NextGrant

Spec == Init /\ [][Next]_vars


\* ================================================================ claims
Evaluated == {log[i] : i \in 1..Len(log)}
LastEvaluated == IF log = <<>> THEN "" ELSE log[Len(log)]
Ended == pc \in {"failed", "done"}
\* the place of a check in the log (0: not evaluated)
At(name) == IF name \in Evaluated THEN CHOOSE i \in 1..Len(log) : log[i] = name ELSE 0
SameError(e, kind, errorId, status) ==
    e.kind = kind /\ e.errorId = errorId /\ e.status = status
Min(S) == CHOOSE x \in S : \A y \in S : x <= y

\* ---- C1
\* The eight checks of the authorization_code path, each decided on the
\* request alone: its name, whether the request fails it, the error it gives.
AcCheckName(i) ==
    <<"RequireCode", "RequireRedirectUri", "VerifyCode", "RequireTokenRedirectUri",
      "MatchRedirectUri", "CodeChallengeMethod", "RequireCodeVerifier",
      "VerifyCodeChallenge">>[i]

AcCheckFails(i, r) ==
    LET t == r.code.payload
        pkce == t.code_challenge_method \notin {Undefined, ""}
    IN  CASE i = 1 -> r.code.form = "undefined"
          [] i = 2 -> r.redirect_uri \in {Undefined, ""}
          [] i = 3 -> ~(r.code.form = "jwt" /\ r.code.signedWith = config.jwtSecret
                        /\ ~r.code.expired)
          [] i = 4 -> t.redirect_uri \in {Undefined, ""}
          [] i = 5 -> t.redirect_uri # r.redirect_uri
          [] i = 6 -> pkce /\ t.code_challenge_method # "S256"
          [] i = 7 -> pkce /\ r.code_verifier \in {Undefined, ""}
          [] i = 8 -> pkce /\ (r.code_verifier \notin Verifiers
                               \/ Sha256Base64Url(r.code_verifier) # t.code_challenge)

AcCheckError(i) ==
    <<[kind |-> "InvalidClientError",  errorId |-> "invalid_client",  status |-> 400],
      [kind |-> "InvalidRequestError", errorId |-> "invalid_request", status |-> 400],
      [kind |-> "InvalidClientError",  errorId |-> "invalid_client",  status |-> 401],
      [kind |-> "InvalidClientError",  errorId |-> "invalid_client",  status |-> 401],
      [kind |-> "InvalidRequestError", errorId |-> "invalid_request", status |-> 401],
      [kind |-> "InvalidRequestError", errorId |-> "invalid_request", status |-> 400],
      [kind |-> "InvalidRequestError", errorId |-> "invalid_request", status |-> 400],
      [kind |-> "OAuthError",          errorId |-> "invalid_grant",   status |-> 401]>>[i]

AcFailing(r) == {i \in 1..8 : AcCheckFails(i, r)}

\* C1: on the authorization_code path the error is the error of the first
\* of the eight checks, in their order, that the request fails; that check
\* is the last thing evaluated, and no later check, no client-assertion
\* validation and no part of finish is ever evaluated for such a request.
\* A request that fails none of the eight gets none of their errors.
C1_FirstFailingCheckDecides ==
    req.grant_type = "authorization_code" =>
        LET failing == AcFailing(req)
        IN  IF failing # {}
              THEN /\ Evaluated \subseteq
                        {"handle"} \cup {AcCheckName(i) : i \in 1..Min(failing)}
                   /\ Ended =>
                        /\ pc = "failed"
                        /\ LastEvaluated = AcCheckName(Min(failing))
                        /\ SameError(err, AcCheckError(Min(failing)).kind,
                                     AcCheckError(Min(failing)).errorId,
                                     AcCheckError(Min(failing)).status)
                        /\ response = NoResponse
              ELSE pc = "failed" => LastEvaluated \notin {AcCheckName(i) : i \in 1..8}

\* a request that fails checks 5, 6 and 7 has ended with the error of 5
C1_Witness ==
    /\ req.grant_type = "authorization_code"
    /\ pc = "failed"
    /\ {5, 6, 7} \subseteq AcFailing(req)
    /\ Min(AcFailing(req)) = 5
    /\ LastEvaluated = "MatchRedirectUri"

\* ---- C2
\* C2: a request whose grant_type is neither "authorization_code" nor
\* "refresh_token" (absent included) fails with OAuthError
\* unsupported_grant_type, status 400, and nothing but the dispatch was
\* evaluated: no check of the code, no refresh path, no basic auth, no
\* token built, no response written.
C2_UnsupportedGrantType ==
    (req.grant_type \notin {"authorization_code", "refresh_token"} /\ pc # "handle") =>
        /\ pc = "failed"
        /\ SameError(err, "OAuthError", "unsupported_grant_type", 400)
        /\ log = <<"handle">>
        /\ authorizationToken = EmptyToken
        /\ tokenResponse = NoBody
        /\ response = NoResponse

\* no grant_type, yet a code and a refresh token that would both be accepted
C2_Witness ==
    /\ req.grant_type = Undefined
    /\ JwtVerifies(req.code, config.jwtSecret)
    /\ JwtVerifies(req.refresh_token, config.jwtSecret)
    /\ pc = "failed"
    /\ err.errorId = "unsupported_grant_type"


\* ---- C3
PkceEntered ==
    /\ req.grant_type = "authorization_code"
    /\ "MatchRedirectUri" \in Evaluated
    /\ ~(pc = "failed" /\ LastEvaluated = "MatchRedirectUri")
    /\ authorizationToken.code_challenge_method \notin {Undefined, ""}
PkceSteps == {"CodeChallengeMethod", "RequireCodeVerifier", "VerifyCodeChallenge"}
PkceDecided == PkceEntered /\ pc \notin PkceSteps
PkceSucceeded == PkceDecided /\ ~(pc = "failed" /\ LastEvaluated \in PkceSteps)

\* C3: for a code token with a code_challenge_method, PKCE validation
\* succeeds exactly when the method is "S256" and the request has a
\* code_verifier whose base64url(sha256(.)) is the token's code_challenge;
\* any other method is rejected with InvalidRequestError, 400, by the method
\* check, before the code_verifier is looked at.
C3_PkceDecision ==
    PkceDecided =>
        /\ PkceSucceeded <=>
              /\ authorizationToken.code_challenge_method = "S256"
              /\ req.code_verifier \in Verifiers \ {""}
              /\ Sha256Base64Url(req.code_verifier) = authorizationToken.code_challenge
        /\ authorizationToken.code_challenge_method # "S256" =>
              /\ pc = "failed"
              /\ LastEvaluated = "CodeChallengeMethod"
              /\ SameError(err, "InvalidRequestError", "invalid_request", 400)
              /\ "RequireCodeVerifier" \notin Evaluated
              /\ "VerifyCodeChallenge" \notin Evaluated

\* an unsupported method and no verifier: rejected for the method
C3_Witness ==
    /\ PkceDecided
    /\ authorizationToken.code_challenge_method = "plain"
    /\ req.code_verifier = Undefined
    /\ pc = "failed"
    /\ LastEvaluated = "CodeChallengeMethod"

\* ---- C4
DecodedToken ==
    IF req.grant_type = "authorization_code" THEN req.code.payload
    ELSE req.refresh_token.payload

\* C4: on both grants, before any header is set or body sent, before any
\* token is signed and before the token_invalid_token check,
\* validateBasicAuth has run on the token decoded in this request and has
\* passed: a confidential client has sent its own credentials as Basic
\* authentication.
C4_BasicAuthBeforeSuccess ==
    (response # NoResponse \/ tokenResponse # NoBody \/ "InvalidToken" \in Evaluated) =>
        /\ At("validateBasicAuth") > 0
        /\ At("validateBasicAuth") < At("InvalidToken")
        /\ "BuildTokenResponse" \in Evaluated =>
              At("InvalidToken") < At("BuildTokenResponse")
        /\ authorizationToken = DecodedToken
        /\ ValidateBasicAuth(DecodedToken, req.authorization) = NoError
        /\ DecodedToken.auth_error # "auth_invalid_client_secret"
        /\ DecodedToken.client_secret \notin {Undefined, ""} =>
              /\ req.authorization.scheme \in {"Basic", "basic", "BASIC"}
              /\ req.authorization.parts = <<req.authorization.parts[1], DecodedToken.client_secret>>

\* a refresh grant of a confidential client, answered
C4_Witness ==
    /\ response.sent
    /\ req.grant_type = "refresh_token"
    /\ DecodedToken.client_secret = "secret-1"
    /\ req.authorization.parts = <<"client-1", "secret-1">>


\* ---- C5
RequestedKid == req.client_assertion.header.kid
RequestedAlg == req.client_assertion.header.alg
Matching(keys, kid, alg) == {i \in 1..Len(keys) : keys[i].alg = alg /\ keys[i].kid = kid}

\* C5: a key that key selection returns has the requested alg and the
\* requested kid and is the only key of the JWKS with both.
C5_ReturnedKeyMatchesAlgAndKid ==
    key # NoKey =>
        /\ key.alg = RequestedAlg
        /\ key.kid = RequestedKid
        /\ Cardinality(Matching(jwks.keys, RequestedKid, RequestedAlg)) = 1

\* ---- C6
\* The two-stage filter: first by alg, then, among those, by kid.
TwoStageFilter(keys, kid, alg) ==
    LET byAlg == SelectSeq(keys, LAMBDA k : k.alg = alg)
        byKid == SelectSeq(byAlg, LAMBDA k : k.kid = kid)
    IN  IF Len(byAlg) = 0 THEN [outcome |-> "alg mismatch", key |-> NoKey]
        ELSE IF Len(byKid) = 0 THEN [outcome |-> "kid mismatch", key |-> NoKey]
        ELSE IF Len(byKid) > 1 THEN [outcome |-> "ambiguous", key |-> NoKey]
        ELSE [outcome |-> "key", key |-> byKid[1]]

\* what key selection did in this request
Selected ==
    IF pc = "failed" /\ LastEvaluated = "pickPublicKey"
      THEN [outcome |->
               CASE err.message = "None of the keys found in the JWKS alg equal to alg"
                      -> "alg mismatch"
                 [] err.message = "None of the keys found in the JWKS kid equal to kid"
                      -> "kid mismatch"
                 [] err.message = "Multiple usable public keys found in the JWKS"
                      -> "ambiguous"
                 [] OTHER -> err.message,
            key |-> NoKey]
      ELSE [outcome |-> "key", key |-> key]

\* C6: the outcome of key selection is that of the two-stage filter (stated
\* here for the key lists on which the two can be compared by outcome: not
\* empty, every key well-formed).
C6_SelectionIsTwoStageFilter ==
    (/\ "pickPublicKey" \in Evaluated
     /\ jwks.keys # <<>>
     /\ \A i \in 1..Len(jwks.keys) : jwks.keys[i].pub # "malformed") =>
        Selected = TwoStageFilter(jwks.keys, RequestedKid, RequestedAlg)

\* ---- C7
AssertionValidated == "DecodeAssertion" \in Evaluated

\* C7: when the code token has a registered jwks_url, every JWKS fetch of
\* the request goes to that URL; and a validated assertion whose jku is
\* another URL ends in InvalidClientError, 401, with no fetch at all.
C7_FetchOnlyRegisteredUrl ==
    authorizationToken.jwks_url \notin {Undefined, ""} =>
        /\ \A i \in 1..Len(fetches) : fetches[i] = authorizationToken.jwks_url
        /\ (/\ AssertionValidated
            /\ Ended
            /\ req.client_assertion.header.jku \notin {Undefined, ""}
            /\ req.client_assertion.header.jku # authorizationToken.jwks_url) =>
              /\ pc = "failed"
              /\ SameError(err, "InvalidClientError", "invalid_client", 401)
              /\ fetches = <<>>

\* an assertion that passed every claim check, rejected for its jku
C7_Witness ==
    /\ authorizationToken.jwks_url = JwksUrl
    /\ req.client_assertion.header.jku = "https://evil.example/jwks"
    /\ pc = "failed"
    /\ LastEvaluated = "ResolveJwks"
    /\ fetches = <<>>

\* ---- C8, C9
\* The decoded scope string has `name` as one of its space-delimited words.
IsSpace(atom) == atom \in {" ", "%20"}
ScopeContains(s, name) ==
    \E i \in 1..Len(s) :
        /\ s[i] = name
        /\ i = 1 \/ IsSpace(s[i - 1])
        /\ i = Len(s) \/ IsSpace(s[i + 1])

IdTokenDue(t) ==
    /\ t.user \notin {Undefined, ""}
    /\ ScopeContains(t.scope, "openid")
    /\ ScopeContains(t.scope, "profile") \/ ScopeContains(t.scope, "fhirUser")

RefreshTokenDue(t) ==
    ScopeContains(t.scope, "offline_access") \/ ScopeContains(t.scope, "online_access")

Has(body, field) == body[field].form # "undefined"

\* C8 as claimed: the response has an id_token iff user is present and the
\* scope has openid and profile or fhirUser, whatever the context map holds.
C8_AsClaimed ==
    response.sent => (Has(response.body, "id_token") <=> IdTokenDue(DecodedToken))

\* C8, amended: that holds when the context map has no id_token key, and the
\* id_token is then the one createIdToken signs for the user; with an
\* id_token key in the context map the response carries the context's value.
C8_IdTokenUnlessInContext ==
    response.sent =>
        IF "id_token" \in DecodedToken.context
          THEN response.body.id_token = ContextValue("id_token")
          ELSE /\ Has(response.body, "id_token") <=> IdTokenDue(DecodedToken)
               /\ IdTokenDue(DecodedToken) =>
                    /\ response.body.id_token.signedWith = config.privateKeyAsPem
                    /\ response.body.id_token.payload.fhirUser = DecodedToken.user

C8_Witness ==
    /\ response.sent
    /\ DecodedToken.context = {"patient"}
    /\ DecodedToken.scope = <<"openid", "%20", "fhirUser">>
    /\ Has(response.body, "id_token")

\* C9 as claimed: the response has a refresh_token iff the scope has
\* offline_access or online_access, on both grants, whatever the context
\* map holds.
C9_AsClaimed ==
    response.sent => (Has(response.body, "refresh_token") <=> RefreshTokenDue(DecodedToken))

\* C9, amended: that holds on both grants when the context map has no
\* refresh_token key, and the refresh token is then one signed with the
\* server's secret; with a refresh_token key in the context map the response
\* carries the context's value.
C9_RefreshTokenUnlessInContext ==
    response.sent =>
        IF "refresh_token" \in DecodedToken.context
          THEN response.body.refresh_token = ContextValue("refresh_token")
          ELSE /\ Has(response.body, "refresh_token") <=> RefreshTokenDue(DecodedToken)
               /\ RefreshTokenDue(DecodedToken) =>
                    /\ response.body.refresh_token.signedWith = config.jwtSecret
                    /\ response.body.refresh_token.payload.scope = DecodedToken.scope

C9_Witness ==
    /\ response.sent
    /\ req.grant_type = "refresh_token"
    /\ DecodedToken.context = {"patient"}
    /\ DecodedToken.scope = <<"launch", "%20", "online_access">>
    /\ Has(response.body, "refresh_token")

\* ---- C10
\* C10: expires_in, and the lifetime of the access token, is
\* accessTokensExpireIn * 60 when the token has one and otherwise the
\* configured default lifetime as it stands.
C10_DefaultLifetimeUnscaled ==
    "BuildTokenResponse" \in Evaluated =>
        LET claimed == IF DecodedToken.accessTokensExpireIn \notin {NoValue, 0}
                         THEN DecodedToken.accessTokensExpireIn * 60
                         ELSE config.accessTokenLifetime
        IN  /\ tokenResponse.access_token.expiresIn = claimed
            /\ "expires_in" \notin DecodedToken.context => tokenResponse.expires_in = claimed


\* ---- C11
\* C11: a request has one outcome.  While it runs nothing is thrown; when it
\* has failed, exactly one error is held and no header and no body was
\* written; when a header or a body was written no error is held, and a
\* request that is done has sent its body.
C11_OneOutcome ==
    /\ pc = "failed" <=> err # NoError
    /\ pc = "failed" => response = NoResponse
    /\ response # NoResponse =>
          /\ err = NoError
          /\ pc \in {"SendJson", "done"}
    /\ response.sent <=> pc = "done"
    /\ response.sent => response.body = tokenResponse /\ tokenResponse # NoBody

\* the last check that can fail has failed, after basic auth passed
C11_Witness ==
    /\ pc = "failed"
    /\ LastEvaluated = "InvalidToken"
    /\ req.authorization.parts = <<"client-1", "secret-1">>
    /\ response = NoResponse
    /\ tokenResponse = NoBody

\* ---- C12
SuccessHeaders == {<<"Cache-Control", "no-store">>, <<"Pragma", "no-cache">>}

\* C12: a response whose body is sent, on either grant, carries
\* Cache-Control: no-store and Pragma: no-cache, and they were set before
\* the body was sent.
C12_NoStoreHeaders ==
    /\ response.sent =>
          /\ SuccessHeaders \subseteq response.headers
          /\ At("SetHeaders") > 0
          /\ At("SetHeaders") < At("SendJson")
    /\ pc = "SendJson" => SuccessHeaders \subseteq response.headers

\* a refresh grant answered with a refresh token
C12_Witness ==
    /\ response.sent
    /\ req.grant_type = "refresh_token"
    /\ SuccessHeaders \subseteq response.headers
    /\ Has(response.body, "refresh_token")
    /\ DecodedToken.context = {}


\* ---- C13
\* the refresh token is a token the server signed and whose lifetime runs
SignedByServer(t) == t.form = "jwt" /\ t.signedWith = "jwtSecret" /\ ~t.expired
RefreshDecided ==
    /\ req.grant_type = "refresh_token"
    /\ "ExpiredRefreshToken" \in Evaluated \/ (pc = "failed" /\ LastEvaluated = "VerifyRefreshToken")

\* C13: on the refresh path a refresh token that does not verify gives
\* OAuthError invalid_grant, 401; one that verifies and whose auth_error is
\* "token_expired_refresh_token" gives OAuthError invalid_grant, 403, with
\* validateBasicAuth never evaluated, whatever the Authorization header.  On
\* the authorization_code path that auth_error is never looked at: the
\* request is answered whenever it would be with no auth_error.
C13_RefreshTokenErrors ==
    /\ (RefreshDecided /\ ~SignedByServer(req.refresh_token)) =>
          /\ pc = "failed"
          /\ log = <<"handle", "VerifyRefreshToken">>
          /\ SameError(err, "OAuthError", "invalid_grant", 401)
    /\ (/\ RefreshDecided
        /\ SignedByServer(req.refresh_token)
        /\ req.refresh_token.payload.auth_error = "token_expired_refresh_token") =>
          /\ pc = "failed"
          /\ log = <<"handle", "VerifyRefreshToken", "ExpiredRefreshToken">>
          /\ SameError(err, "OAuthError", "invalid_grant", 403)
    /\ (/\ req.grant_type = "authorization_code"
        /\ SignedByServer(req.code)
        /\ req.code.payload.auth_error = "token_expired_refresh_token") =>
          /\ "ExpiredRefreshToken" \notin Evaluated
          /\ pc = "failed" => ~SameError(err, "OAuthError", "invalid_grant", 403)
          /\ (Ended /\ AcFailing(req) = {} /\ ~AssertionValidated
              /\ ValidateBasicAuth([req.code.payload EXCEPT !.auth_error = Undefined],
                                   req.authorization) = NoError) =>
                response.sent

\* an expired-tagged refresh token of a confidential client, presented with
\* wrong credentials: rejected as expired, not for the credentials
C13_Witness ==
    /\ req.grant_type = "refresh_token"
    /\ req.refresh_token.payload.auth_error = "token_expired_refresh_token"
    /\ req.refresh_token.payload.client_secret = "secret-1"
    /\ req.authorization.parts = <<"client-1", "secret-2">>
    /\ pc = "failed"
    /\ err.status = 403

\* the same tag on a code: the grant is answered
C13_CodeWitness ==
    /\ req.grant_type = "authorization_code"
    /\ req.code.payload.auth_error = "token_expired_refresh_token"
    /\ response.sent

\* ---- C14
NotBasic(h) == h.scheme \notin {"Basic", "basic", "BASIC"}
BasicAuthDecided == "validateBasicAuth" \in Evaluated
BasicAuthFailed == pc = "failed" /\ LastEvaluated = "validateBasicAuth"

\* C14: when basic-auth validation has run on a request with no
\* Authorization header, or one that is not Basic, and the token's
\* auth_error is not auth_invalid_client_secret: the validation passes if
\* the token has no client_secret, and fails with InvalidRequestError, 401,
\* if it has one.
C14_NoHeader ==
    (/\ BasicAuthDecided
     /\ NotBasic(req.authorization)
     /\ DecodedToken.auth_error # "auth_invalid_client_secret") =>
        IF DecodedToken.client_secret \in {Undefined, ""}
          THEN ~BasicAuthFailed /\ "InvalidToken" \in Evaluated \union {pc}
          ELSE /\ BasicAuthFailed
               /\ SameError(err, "InvalidRequestError", "invalid_request", 401)

\* a confidential client that sent a Bearer header
C14_Witness ==
    /\ BasicAuthFailed
    /\ req.authorization.scheme = "Bearer"
    /\ DecodedToken.client_secret = "secret-1"
    /\ err.kind = "InvalidRequestError"


\* ---- C15
RequiredClaimChecks ==
    {"DecodeAssertion", "RequireIss", "RequireSub", "RequireAud", "RequireExp",
     "RequireJti", "RequireTyp", "RequireKid", "RequireAlg"}
LaterAssertionChecks ==
    {"MatchIssSub", "MatchAud", "ResolveJwks", "fetchJwks", "validateJwks",
     "pickPublicKey", "VerifyAssertion"}
\* the assertion was decoded and has every required claim and header
PassedRequiredClaims ==
    /\ "RequireAlg" \in Evaluated
    /\ ~(pc = "failed" /\ LastEvaluated \in RequiredClaimChecks)
SimulatedAssertionErrors == {"token_expired_registration_token", "token_invalid_jti"}

\* C15: when the client token's auth_error is token_expired_registration_token
\* or token_invalid_jti and the assertion has passed decoding and the
\* required-claim and header checks, validation fails with
\* InvalidClientError, 401, at the simulated-error checks, whatever iss, sub,
\* aud, jku and the key sources are: none of the later checks is evaluated,
\* nothing is fetched, no key is resolved.
C15_SimulatedErrorsFirst ==
    (/\ PassedRequiredClaims
     /\ req.code.payload.auth_error \in SimulatedAssertionErrors
     /\ pc \notin {"ExpiredRegistrationToken", "InvalidJti"}) =>
        /\ pc = "failed"
        /\ SameError(err, "InvalidClientError", "invalid_client", 401)
        /\ LastEvaluated =
              IF req.code.payload.auth_error = "token_expired_registration_token"
                THEN "ExpiredRegistrationToken" ELSE "InvalidJti"
        /\ Evaluated \cap LaterAssertionChecks = {}
        /\ fetches = <<>>
        /\ jwks = NoJwks
        /\ key = NoKey

\* iss and sub differ, aud is another server, the jku is not the registered
\* one: the simulated jti error is what the request gets
C15_Witness ==
    /\ PassedRequiredClaims
    /\ req.code.payload.auth_error = "token_invalid_jti"
    /\ req.client_assertion.payload.iss # req.client_assertion.payload.sub
    /\ req.client_assertion.payload.aud = <<"https", "://evil.example", "/token">>
    /\ req.client_assertion.header.jku = "https://evil.example/jwks"
    /\ req.code.payload.jwks_url = JwksUrl
    /\ pc = "failed"
    /\ LastEvaluated = "InvalidJti"

\* ---- C16
AssertionDue ==
    /\ req.client_assertion.form # "undefined"
    /\ req.client_assertion_type = "urn:ietf:params:oauth:client-assertion-type:jwt-bearer"
AssertionChecks ==
    RequiredClaimChecks \cup {"ExpiredRegistrationToken", "InvalidJti"} \cup LaterAssertionChecks

\* C16: once the authorization_code path has passed its checks of the code,
\* the assertion is validated if and only if client_assertion is present and
\* client_assertion_type is the jwt-bearer URN.  In every other case finish
\* is entered next, with the token decoded from the code: no check of the
\* assertion is evaluated, nothing is fetched, no key is resolved, also for
\* a client with a registered jwks_url or jwks.
C16_AssertionBranch ==
    ("ClientAssertion" \in Evaluated) =>
        /\ AssertionDue <=> "DecodeAssertion" \in Evaluated \union {pc}
        /\ ~AssertionDue =>
              /\ Evaluated \cap AssertionChecks = {}
              /\ pc \notin AssertionChecks
              /\ "validateBasicAuth" \in Evaluated \union {pc}
              /\ "validateBasicAuth" \in Evaluated =>
                    At("validateBasicAuth") = At("ClientAssertion") + 1
              /\ authorizationToken = req.code.payload
              /\ fetches = <<>> /\ jwks = NoJwks /\ key = NoKey

\* an assertion that is no token, with another type, for a client that
\* registered a jwks_url: the request is answered
C16_Witness ==
    /\ req.client_assertion.form = "garbage"
    /\ req.client_assertion_type = "urn:other"
    /\ req.code.payload.jwks_url = JwksUrl
    /\ response.sent


\* ---- C17
Count(name) == Cardinality({i \in 1..Len(log) : log[i] = name})
\* the request gets as far as choosing where the keys come from
KeySourceChosen ==
    /\ "ResolveJwks" \in Evaluated
\* the keys are to be fetched: the assertion names a jku that is the
\* registered URL or the client registered none, or it names none and the
\* client registered a jwks_url
KeysAreFetched ==
    LET jku == req.client_assertion.header.jku
        url == req.code.payload.jwks_url
    IN  IF jku \notin {Undefined, ""}
          THEN url \in {Undefined, ""} \/ jku = url
          ELSE url \notin {Undefined, ""}
\* the fetch was answered with no JSON document
FetchFailed == "fetchJwks" \in Evaluated /\ jwks = NoJwks

\* C17: in one request the JWKS is fetched at most once: not at all when
\* the request does not get to choosing its key source, when the jku is
\* refused, when the inline jwks is used or when the client has no key
\* source; once otherwise.  A fetch that fails is not repeated: the request
\* ends there with InvalidClientError, 401.
C17_FetchAtMostOnce ==
    /\ Len(fetches) <= 1
    /\ Count("fetchJwks") <= Len(fetches)
    /\ Len(fetches) = 1 <=> (KeySourceChosen /\ KeysAreFetched)
    /\ (Ended /\ KeySourceChosen /\ KeysAreFetched) => Count("fetchJwks") = 1
    /\ FetchFailed =>
          /\ pc = "failed"
          /\ LastEvaluated = "fetchJwks"
          /\ SameError(err, "InvalidClientError", "invalid_client", 401)
          /\ Count("fetchJwks") = 1

\* the one fetch failed and the client has an inline jwks as well: it is
\* not fallen back on
C17_Witness ==
    /\ FetchFailed
    /\ pc = "failed"
    /\ fetches = <<JwksUrl>>
    /\ req.code.payload.jwks = BaseInlineJwks
    /\ req.client_assertion.header.jku = Undefined


\* ---- C18
RefreshTokenFields == {"context", "scope", "user", "auth_error"}
\* y has the four fields of t and none of its others
OnlyRefreshFieldsOf(y, t) ==
    \A f \in DOMAIN EmptyToken :
        y[f] = IF f \in RefreshTokenFields THEN t[f] ELSE EmptyToken[f]
\* this request presents the refresh token issued by the grant before it,
\* and the refresh path has verified it
VerifiedIssuedToken ==
    /\ chain.grants > 1
    /\ "VerifyRefreshToken" \in Evaluated
    /\ ~(pc = "failed" /\ LastEvaluated = "VerifyRefreshToken")

\* C18: the refresh token generated for a token t verifies on the refresh
\* path while its lifetime runs, and what the refresh path then holds is
\* context, scope, user and auth_error of t, unchanged, and no other field
\* of t.  Stated for every token a request decodes, and observed on every
\* refresh grant that presents a refresh token issued by the grant before.
C18_RefreshTokenRoundTrip ==
    /\ authorizationToken # EmptyToken =>
          LET issued == generateRefreshToken(authorizationToken)
          IN  /\ SignedByServer(issued)
              /\ OnlyRefreshFieldsOf(issued.payload, authorizationToken)
    /\ VerifiedIssuedToken =>
          /\ OnlyRefreshFieldsOf(authorizationToken, chain.issuedFor)
          /\ req.refresh_token.payload = authorizationToken

\* the refresh token of a token that has every claim, verified
C18_Witness ==
    /\ VerifiedIssuedToken
    /\ chain.issuedFor.client_secret = "secret-1"
    /\ chain.issuedFor.client_id = "client-1"
    /\ chain.issuedFor.jwks_url = JwksUrl
    /\ chain.issuedFor.code_challenge # Undefined
    /\ chain.issuedFor.accessTokensExpireIn = 1
    /\ chain.issuedFor.context = {"patient"}
    /\ authorizationToken.client_secret = Undefined
    /\ authorizationToken.context = {"patient"}


\* ---- C19
AccessTokenClaims ==
    {"scope", "jwks_url", "jwks", "code_challenge_method", "code_challenge",
     "client_secret", "nonce", "auth_error"}
Replaceable == {"token_type", "expires_in", "scope", "id_token", "refresh_token"}

\* C19: the access_token of a sent response is a token signed with the
\* server's secret in this request, whose claims are scope, jwks_url, jwks,
\* code_challenge_method, code_challenge, client_secret, nonce and
\* auth_error of the decoded token and nothing else of it, also when the
\* context map has a key access_token; the keys token_type, expires_in,
\* scope, id_token and refresh_token of the context map do replace the
\* response's fields.
C19_AccessTokenNotReplaced ==
    response.sent =>
        /\ response.body.access_token.form = "jwt"
        /\ response.body.access_token.signedWith = "jwtSecret"
        /\ \A f \in DOMAIN EmptyToken :
              response.body.access_token.payload[f] =
                  IF f \in AccessTokenClaims THEN authorizationToken[f] ELSE EmptyToken[f]
        /\ authorizationToken = DecodedToken
        /\ \A k \in Replaceable \cap DecodedToken.context :
              response.body[k] = ContextValue(k)

\* a context map with every key, access_token among them
C19_Witness ==
    /\ response.sent
    /\ "access_token" \in DecodedToken.context
    /\ "refresh_token" \in DecodedToken.context
    /\ response.body.refresh_token = ContextValue("refresh_token")
    /\ response.body.access_token # ContextValue("access_token")
    /\ response.body.access_token.payload.scope = DecodedToken.scope


\* ---- C20
\* The chain began with an authorization_code grant; Origin is its code token.
ChainFromCode == chain.first.grant_type = "authorization_code"
Origin == chain.first.code.payload
Carries(t) ==
    /\ t.form = "jwt"
    /\ t.signedWith = "jwtSecret"
    /\ t.payload.scope = Origin.scope
    /\ t.payload.auth_error = Origin.auth_error
\* this grant has a verified token: the code's, or the refresh token's
TokenVerified ==
    \/ "RequireTokenRedirectUri" \in Evaluated
    \/ "ExpiredRefreshToken" \in Evaluated

\* C20 as claimed: in every grant of a chain that began with a code, the
\* access token and the refresh token of the response carry the scope and
\* the auth_error of the code token, whatever the context map holds.
C20_AsClaimed ==
    (ChainFromCode /\ response.sent) =>
        /\ Carries(response.body.access_token)
        /\ Has(response.body, "refresh_token") => Carries(response.body.refresh_token)

\* C20, amended: the access token of every response of the chain carries
\* them, and so does the refresh token when the code token's context map
\* has no refresh_token key (with that key the response's refresh_token is
\* the context's value).  Every later grant that presents such a refresh
\* token within its lifetime decides on the scope and the auth_error of the
\* code token: token_expired_refresh_token ends it with invalid_grant, 403;
\* request_invalid_token and request_expired_token put their sim_error in
\* its response; and a grant sent without Authorization header is answered,
\* with a refresh token again.
C20_TagAndScopeCarried ==
    ChainFromCode =>
        /\ response.sent =>
              /\ Carries(response.body.access_token)
              /\ "refresh_token" \notin Origin.context =>
                    (Has(response.body, "refresh_token") => Carries(response.body.refresh_token))
        /\ (TokenVerified /\ "refresh_token" \notin Origin.context) =>
              /\ authorizationToken.scope = Origin.scope
              /\ authorizationToken.auth_error = Origin.auth_error
              /\ authorizationToken.context = Origin.context
        /\ (chain.grants > 1 /\ TokenVerified /\ Ended
            /\ "refresh_token" \notin Origin.context) =>
              /\ Origin.auth_error = "token_expired_refresh_token" =>
                    pc = "failed" /\ SameError(err, "OAuthError", "invalid_grant", 403)
              /\ response.sent =>
                    response.body.sim_error =
                        CASE Origin.auth_error = "request_invalid_token" -> "Invalid token"
                          [] Origin.auth_error = "request_expired_token" -> "Token expired"
                          [] OTHER -> Undefined
              /\ (/\ req.authorization = NoAuthorization
                  /\ Origin.auth_error \notin
                        {"token_expired_refresh_token", "token_invalid_token",
                         "auth_invalid_client_secret"}) =>
                    (response.sent /\ Has(response.body, "refresh_token"))

\* the third grant of a chain whose code was tagged request_expired_token
C20_Witness ==
    /\ ChainFromCode
    /\ chain.grants = 3
    /\ Origin.auth_error = "request_expired_token"
    /\ Origin.scope = <<"launch", "%20", "online_access">>
    /\ response.sent
    /\ response.body.sim_error = "Token expired"
    /\ Carries(response.body.refresh_token)

\* a code tagged token_expired_refresh_token: answered, and its refresh
\* token refused at the second grant
C20_ExpiredWitness ==
    /\ ChainFromCode
    /\ chain.grants = 2
    /\ Origin.auth_error = "token_expired_refresh_token"
    /\ pc = "failed"
    /\ err.status = 403


\* ---- C21
\* The chain began with the code of a confidential client, whose first
\* request passed basic auth with the client's credentials.
ConfidentialOrigin ==
    /\ ChainFromCode
    /\ Origin.client_secret \notin {Undefined, ""}
    /\ "refresh_token" \notin Origin.context
OriginalCredentials == chain.first.authorization
\* a later grant of the chain whose refresh token the refresh path accepted
\* (verified, and not tagged as expired)
LaterGrantAccepted ==
    /\ chain.grants > 1
    /\ "ExpiredRefreshToken" \in Evaluated
    /\ ~(pc = "failed" /\ LastEvaluated = "ExpiredRefreshToken")

\* C21: the refresh token issued for a confidential client carries no
\* client_secret (and no client_id).  In a later refresh_token grant that
\* presents it, within its lifetime and with no simulated refresh-token
\* expiry, basic-auth validation sees a public client: with no
\* Authorization header the grant is answered; with the client's original,
\* valid Basic credentials it is rejected with InvalidClientError, 401, by
\* the comparison of the sent secret with the absent client_secret.
C21_SecretNotCarried ==
    ConfidentialOrigin =>
        /\ (response.sent /\ Has(response.body, "refresh_token")) =>
              /\ response.body.refresh_token.payload.client_secret = Undefined
              /\ response.body.refresh_token.payload.client_id = Undefined
        /\ chain.grants > 1 =>
              /\ OriginalCredentials.scheme \in {"Basic", "basic", "BASIC"}
              /\ OriginalCredentials.parts = <<OriginalCredentials.parts[1], Origin.client_secret>>
        /\ LaterGrantAccepted =>
              /\ authorizationToken.client_secret = Undefined
              /\ Ended =>
                    IF req.authorization = NoAuthorization
                      THEN response.sent
                      ELSE /\ req.authorization = OriginalCredentials
                           /\ pc = "failed"
                           /\ LastEvaluated = "validateBasicAuth"
                           /\ SameError(err, "InvalidClientError", "invalid_client", 401)
                           /\ err.message = "Invalid client_secret in the basic auth header"

\* the third grant repeats the credentials that the first one needed
C21_Witness ==
    /\ ConfidentialOrigin
    /\ chain.grants = 3
    /\ req.authorization = BasicAuth("Basic", <<"client-1", "secret-1">>)
    /\ Origin.client_secret = "secret-1"
    /\ pc = "failed"
    /\ err.message = "Invalid client_secret in the basic auth header"

\* the second grant sends no credentials and is answered
C21_PublicWitness ==
    /\ ConfidentialOrigin
    /\ chain.grants = 2
    /\ req.authorization = NoAuthorization
    /\ response.sent

=============================================================================
